---- MODULE Spec2Model ----
(***************************************************************************)
(* chunker_python: AtomicCounter (pkg/atomics/atomic_counter.py),          *)
(* AsyncFileChunker (pkg/fileio/async_file_chunker.py) and the command     *)
(* line entry point (cmd/chunker.py).                                      *)
(*                                                                         *)
(* Byte quantities that can exceed the range of a C int (file lengths,     *)
(* exact sums) are carried as two-digit numbers hi * G + lo with G = 2^30, *)
(* so that the 32-bit backing store of AtomicCounter keeps its real width. *)
(*                                                                         *)
(* Library behaviour taken as given: aiofiles.open / read / close and      *)
(* asyncio.sleep are awaitable steps (suspension points); leaving the      *)
(* `async with` block closes the file; print always succeeds; the path is  *)
(* on a POSIX file system (opening a directory raises IsADirectoryError,   *)
(* an unlinked file stays readable through an open handle).                *)
(***************************************************************************)
EXTENDS Integers, Sequences, FiniteSets, TLC

\* ------------------------------------------------------------------ bounds
\* Small file lengths 0..MaxLen and small chunk sizes 0..MaxChunk.
MaxLen == 5
MaxChunk == 3
\* File lengths 0..TwoLen when two calls share one processor.
TwoLen == 2
\* Number of times the caller runs the program on the same path.
MaxRuns == 2
\* Concurrent callers of one AtomicCounter.
NThreads == 2

\* --------------------------------------------------------------- constants
\* AsyncFileChunker.DEFAULT_CHUNK_SIZE
DEFAULT_CHUNK_SIZE == 8192
\* multiprocessing.Value('i', ...): a signed C int, range -2^31 .. 2^31 - 1.
INT_MAX == 2147483647
INT_MIN == (-INT_MAX) - 1
\* 2^30: the radix of the two-digit byte quantities.
G == (INT_MAX \div 2) + 1

\* ------------------------------------------------- exact byte quantities
\* [hi, lo] stands for hi * G + lo, 0 <= lo < G.
Big(n) == [hi |-> n \div G, lo |-> n % G]
BigZero == [hi |-> 0, lo |-> 0]
\* b + k for 0 <= k <= INT_MAX
BigAdd(b, k) ==
    LET s == b.lo + (k % G)
    IN  [hi |-> b.hi + (k \div G) + (s \div G), lo |-> s % G]
\* b - k for 0 <= k <= INT_MAX, k <= b
BigSub(b, k) ==
    IF b.lo >= k % G
    THEN [hi |-> b.hi - (k \div G), lo |-> b.lo - (k % G)]
    ELSE [hi |-> b.hi - (k \div G) - 1, lo |-> b.lo + (G - (k % G))]
\* a - b for b <= a
BigDiff(a, b) ==
    IF a.lo >= b.lo THEN [hi |-> a.hi - b.hi, lo |-> a.lo - b.lo]
                    ELSE [hi |-> a.hi - b.hi - 1, lo |-> a.lo + (G - b.lo)]
BigLeq(a, b) == a.hi < b.hi \/ (a.hi = b.hi /\ a.lo <= b.lo)
BigMin(a, b) == IF BigLeq(a, b) THEN a ELSE b
\* the int v is the exact quantity b
BigIs(b, v) == b.hi <= 1 /\ v = b.hi * G + b.lo
RECURSIVE BigTimes(_, _)
\* i * c for small i
BigTimes(i, c) == IF i = 0 THEN BigZero ELSE BigAdd(BigTimes(i - 1, c), c)
\* ceil(b / c) for c >= 1 (exact while hi * (G % c) + lo fits an int)
BigCeilDiv(b, c) ==
    LET r == b.hi * (G % c) + b.lo
    IN  b.hi * (G \div c) + (r \div c) + (IF r % c = 0 THEN 0 ELSE 1)
\* The representative in -2^31 .. 2^31 - 1 of the exact quantity S modulo 2^32.
Wrapped(S) == ((S.hi % 4) - (IF S.hi % 4 >= 2 THEN 4 ELSE 0)) * G + S.lo

Min(a, b) == IF a <= b THEN a ELSE b

\* ------------------------------------------------------------ AtomicCounter
\* Variant: the sum is clamped to the range of a C int instead of wrapping.
Add32Saturating(v, num) ==
    IF num >= 0
    THEN IF v <= INT_MAX - num THEN v + num ELSE INT_MAX
    ELSE IF v >= INT_MIN - num THEN v + num ELSE INT_MIN

\* C int arithmetic of `self.value.value += num`: ctypes stores the low 32
\* bits of the Python sum without raising.
Add32(v, num) ==
    IF num >= 0
    THEN IF v <= INT_MAX - num THEN v + num
         ELSE ((v - INT_MAX) + (num - INT_MAX)) - 2
    ELSE IF v >= INT_MIN - num THEN v + num
         ELSE ((v + INT_MAX) + (num + INT_MAX)) + 2

\* AtomicCounter.__init__(initial): value = Value('i', initial), lock = Lock()
\* lock = 0: free; lock = th: held by caller th.
AtomicCounter(initial) == [value |-> initial, lock |-> 0]

\* increment / decrement / get run to completion by one caller while no other
\* caller holds the lock (the event loop runs them without suspension).
increment(c, num) == [c EXCEPT !.value = Add32(c.value, num)]
decrement(c, num) == [c EXCEPT !.value = Add32(c.value, -num)]
get(c) == c.value

\* ------------------------------------------------------------------- state
Tasks == {1, 2}
Threads == 1..NThreads

VARIABLES
    \* the path given on the command line / to process_file
    fsKind,         \* "missing" | "dir" | "file" | "noperm" (regular file, unreadable)
    fsLen,          \* length in bytes of the regular file
    \* the caller of process_file
    mode,           \* "main": cmd/chunker.py main(); "direct": a caller of process_file
    argSize,        \* the chunk_size argument the caller passes
    run,            \* 1..MaxRuns: which run of the program this is
    mpc,            \* "start" | "await" | "exited"
    exitStatus,     \* "none" | "0" | "1" | "unhandled" | "returned" | "raised"
    \* the AsyncFileChunker instance
    hasProcessor,   \* an AsyncFileChunker has been constructed in this run
    chunk_counter,  \* self.chunk_counter
    total_bytes,    \* self.total_bytes
    \* one process_file coroutine per task
    pc,             \* "idle" | "open" | "read" | "hook" | "aexit" | "returned" | "raised"
                    \* ("metrics": inside _update_metrics, seen from another thread)
    size,           \* chunk_size of the call
    handle,         \* "none" | "open" | "closed": the file object of the call
    unread,         \* bytes between the handle's position and end of file
    chunk,          \* len(chunk) of the chunk in flight, 0 when there is none
    nread,          \* non-empty reads completed by the call
    exc,            \* exception travelling out of the `async with` body
    cause,          \* how the call ended: "none" | "ok" | exception class
    result,         \* what the caller of process_file receives
    \* console and history
    stdout,         \* lines printed in this run
    trace,          \* events of this run, in order
    final,          \* per finished run: what it ended with
    \* concurrent callers of one shared AtomicCounter
    shared,         \* the counter
    tpc,            \* "start" | "locked" | "loaded" | "stored" | "done"
    top,            \* per thread: [op, num]
    tmp,            \* per thread: value read by `+=` / `-=` / get
    observed,       \* <<v>>: get() returned v after all callers were joined
    \* an observer of the processor's counters in another thread
    snapshot        \* <<chunk_counter.get(), total_bytes.get()>> as last read

chunkerVars == <<fsKind, fsLen, mode, argSize, run, mpc, exitStatus, hasProcessor,
                 chunk_counter, total_bytes, pc, size, handle, unread, chunk,
                 nread, exc, cause, result, stdout, trace, final>>
counterVars == <<shared, tpc, top, tmp, observed, snapshot>>
vars == <<chunkerVars, counterVars>>

\* ------------------------------------------------------------------ inputs
\* Scenario of the specification: 20000 bytes in chunks of 8192.
ScenarioLen == 2 * DEFAULT_CHUNK_SIZE + 3616
\* (file length, chunk size) pairs a direct caller of process_file uses.
DirectInputs ==
    {[len |-> Big(n), c |-> c] : n \in 0..MaxLen, c \in 0..MaxChunk}
    \cup {[len |-> Big(ScenarioLen), c |-> DEFAULT_CHUNK_SIZE]}
    \cup {[len |-> Big(INT_MAX), c |-> G],
          [len |-> [hi |-> 2, lo |-> 0], c |-> G],
          [len |-> [hi |-> 2, lo |-> 1], c |-> G],
          [len |-> Big(G), c |-> INT_MAX]}
\* main() always passes the default chunk size.
MainInputs ==
    {[len |-> Big(n), c |-> DEFAULT_CHUNK_SIZE] :
        n \in (0..MaxLen) \cup {DEFAULT_CHUNK_SIZE, DEFAULT_CHUNK_SIZE + 1, ScenarioLen}}

NoLine == [kind |-> "none", count |-> 0, len |-> 0, total |-> 0]
Message(kind) == [kind |-> kind, count |-> 0, len |-> 0, total |-> 0]
Event(ev, t, i) == [ev |-> ev, t |-> t, i |-> i]

NoFinal == [ended |-> FALSE, created |-> FALSE, cause |-> "none", size |-> 0,
            chunks |-> 0, total |-> 0, lines |-> <<>>]

IdleTasks ==
    /\ pc = [t \in Tasks |-> "idle"]
    /\ size = [t \in Tasks |-> 0]
    /\ handle = [t \in Tasks |-> "none"]
    /\ unread = [t \in Tasks |-> BigZero]
    /\ chunk = [t \in Tasks |-> 0]
    /\ nread = [t \in Tasks |-> 0]
    /\ exc = [t \in Tasks |-> "none"]
    /\ cause = [t \in Tasks |-> "none"]
    /\ result = [t \in Tasks |-> "none"]

IdleCounter ==
    /\ shared = AtomicCounter(0)
    /\ tpc = [th \in Threads |-> "done"]
    /\ top = [th \in Threads |-> [op |-> "get", num |-> 0]]
    /\ tmp = [th \in Threads |-> 0]
    /\ observed = <<>>
    /\ snapshot = <<>>

InitChunker ==
    /\ fsKind \in {"missing", "dir", "file", "noperm"}
    /\ mode \in {"main", "direct"}
    /\ \E inp \in (IF mode = "main" THEN MainInputs ELSE DirectInputs) :
          /\ fsKind \in {"file", "noperm"} \/ inp.len = BigZero
          /\ fsLen = inp.len
          /\ argSize = inp.c
    /\ run = 1
    /\ mpc = "start"
    /\ exitStatus = "none"
    /\ hasProcessor = FALSE
    /\ chunk_counter = AtomicCounter(0)
    /\ total_bytes = AtomicCounter(0)
    /\ IdleTasks
    /\ stdout = <<>>
    /\ trace = <<>>
    /\ final = [r \in 1..MaxRuns |-> NoFinal]

Init == InitChunker /\ IdleCounter

\* ------------------------------------------------------- AsyncFileChunker
\* Variant: the counters are class attributes shared by every instance.
AsyncFileChunker_initShared ==
    /\ hasProcessor' = TRUE
    /\ UNCHANGED <<chunk_counter, total_bytes>>

\* AsyncFileChunker.__init__: two new counters at 0.
AsyncFileChunker_init ==
    /\ hasProcessor' = TRUE
    /\ chunk_counter' = AtomicCounter(0)
    /\ total_bytes' = AtomicCounter(0)

\* aiofiles.open(file_path, 'rb') on the path as it is now.
OpenResult(kind) ==
    CASE kind = "file"    -> "ok"
      [] kind = "missing" -> "FileNotFoundError"
      [] kind = "noperm"  -> "PermissionError"
      [] kind = "dir"     -> "IsADirectoryError"

\* Variant: no `except Exception` clause after the two typed clauses.
HandlerTypedOnly(e) ==
    CASE e = "FileNotFoundError" -> "File not found"
      [] e = "PermissionError"   -> "Permission denied accessing file"
      [] OTHER -> "uncaught"

\* Variant: `except Exception` listed first, so it takes every exception.
HandlerGenericFirst(e) ==
    IF e \in {"FileNotFoundError", "PermissionError", "IsADirectoryError", "OSError"}
    THEN "Error processing file" ELSE "uncaught"

\* The except clauses of process_file: the line printed for an exception that
\* they catch; CancelledError is a BaseException and passes all three.
Handler(e) ==
    CASE e = "FileNotFoundError" -> "File not found"
      [] e = "PermissionError"   -> "Permission denied accessing file"
      [] e \in {"IsADirectoryError", "OSError"} -> "Error processing file"
      [] OTHER -> "uncaught"

\* Variant: a chunk size of 0 reads the rest of the file, as read(-1) does.
ReadLenZeroIsAll(c, left) ==
    IF c = 0 \/ ~BigLeq(Big(c), left) THEN left.hi * G + left.lo ELSE c

\* Variant: file.read(1), the chunk size not passed on.
ReadLenOneByte(c, left) == IF c = 0 \/ left = BigZero THEN 0 ELSE 1

\* len(await file.read(chunk_size)) for chunk_size >= 0.
ReadLen(c, left) ==
    IF BigLeq(Big(c), left) THEN c ELSE left.hi * G + left.lo

\* The call processor.process_file(path, c) up to its first suspension, the
\* await of aiofiles.open.
CallProcessFile(t, c) ==
    /\ pc[t] = "idle"
    /\ pc' = [pc EXCEPT ![t] = "open"]
    /\ size' = [size EXCEPT ![t] = c]
    /\ trace' = Append(trace, Event("call", t, 0))

\* _display_progress: the progress line, from the counters as they are now.
ProgressLine(cc, tb, chunk_length) ==
    [kind |-> "progress", count |-> get(cc), len |-> chunk_length, total |-> get(tb)]

\* aiofiles.open completes with a file object; the first read is issued.
OpenOk(t) ==
    /\ pc[t] = "open"
    /\ OpenResult(fsKind) = "ok"
    /\ handle' = [handle EXCEPT ![t] = "open"]
    /\ unread' = [unread EXCEPT ![t] = fsLen]
    /\ pc' = [pc EXCEPT ![t] = "read"]
    /\ trace' = trace \o <<Event("open", t, 0), Event("readStart", t, 1)>>
    /\ UNCHANGED <<fsKind, fsLen, mode, argSize, run, mpc, exitStatus, hasProcessor,
                   chunk_counter, total_bytes, size, chunk, nread, exc, cause,
                   result, stdout, final, counterVars>>

\* aiofiles.open raises; an except clause prints and process_file returns None.
OpenFail(t) ==
    /\ pc[t] = "open"
    /\ OpenResult(fsKind) # "ok"
    /\ cause' = [cause EXCEPT ![t] = OpenResult(fsKind)]
    /\ stdout' = Append(stdout, Message(Handler(OpenResult(fsKind))))
    /\ trace' = Append(trace, Event("error", t, 0))
    /\ result' = [result EXCEPT ![t] = "None"]
    /\ pc' = [pc EXCEPT ![t] = "returned"]
    /\ UNCHANGED <<fsKind, fsLen, mode, argSize, run, mpc, exitStatus, hasProcessor,
                   chunk_counter, total_bytes, size, handle, unread, chunk, nread,
                   exc, final, counterVars>>

\* Variant: the hook is started as a task and the next read is issued at once.
ReadChunkAhead(t) ==
    /\ pc[t] = "read"
    /\ ReadLen(size[t], unread[t]) > 0
    /\ chunk' = [chunk EXCEPT ![t] = ReadLen(size[t], unread[t])]
    /\ unread' = [unread EXCEPT ![t] = BigSub(unread[t], ReadLen(size[t], unread[t]))]
    /\ nread' = [nread EXCEPT ![t] = nread[t] + 1]
    /\ pc' = [pc EXCEPT ![t] = "hook"]
    /\ trace' = trace \o <<Event("read", t, nread[t] + 1), Event("readStart", t, nread[t] + 2),
                           Event("hookStart", t, nread[t] + 1)>>
    /\ UNCHANGED <<fsKind, fsLen, mode, argSize, run, mpc, exitStatus, hasProcessor,
                   chunk_counter, total_bytes, size, handle, exc, cause, result,
                   stdout, final, counterVars>>

\* file.read returns a non-empty chunk; _process_single_chunk starts its sleep.
ReadChunk(t) ==
    /\ pc[t] = "read"
    /\ ReadLen(size[t], unread[t]) > 0
    /\ chunk' = [chunk EXCEPT ![t] = ReadLen(size[t], unread[t])]
    /\ unread' = [unread EXCEPT ![t] = BigSub(unread[t], ReadLen(size[t], unread[t]))]
    /\ nread' = [nread EXCEPT ![t] = nread[t] + 1]
    /\ pc' = [pc EXCEPT ![t] = "hook"]
    /\ trace' = trace \o <<Event("read", t, nread[t] + 1), Event("hookStart", t, nread[t] + 1)>>
    /\ UNCHANGED <<fsKind, fsLen, mode, argSize, run, mpc, exitStatus, hasProcessor,
                   chunk_counter, total_bytes, size, handle, exc, cause, result,
                   stdout, final, counterVars>>

\* Variant: an empty read does not end the loop; the read is issued again.
ReadEOFAgain(t) ==
    /\ pc[t] = "read"
    /\ ReadLen(size[t], unread[t]) = 0
    /\ UNCHANGED vars

\* file.read returns b'': the while loop ends and the `async with` is left.
ReadEOF(t) ==
    /\ pc[t] = "read"
    /\ ReadLen(size[t], unread[t]) = 0
    /\ pc' = [pc EXCEPT ![t] = "aexit"]
    /\ trace' = Append(trace, Event("eof", t, nread[t] + 1))
    /\ UNCHANGED <<fsKind, fsLen, mode, argSize, run, mpc, exitStatus, hasProcessor,
                   chunk_counter, total_bytes, size, handle, unread, chunk, nread,
                   exc, cause, result, stdout, final, counterVars>>

\* Variant: a failed read is reported and the read is tried again.
ReadFailRetry(t) ==
    /\ pc[t] = "read"
    /\ stdout' = Append(stdout, Message(Handler("OSError")))
    /\ trace' = trace \o <<Event("readError", t, nread[t] + 1), Event("error", t, 0),
                           Event("readStart", t, nread[t] + 1)>>
    /\ UNCHANGED <<fsKind, fsLen, mode, argSize, run, mpc, exitStatus, hasProcessor,
                   chunk_counter, total_bytes, pc, size, handle, unread, chunk, nread,
                   exc, cause, result, final, counterVars>>

\* file.read raises an OSError (a failing device).
ReadFail(t) ==
    /\ pc[t] = "read"
    /\ exc' = [exc EXCEPT ![t] = "OSError"]
    /\ pc' = [pc EXCEPT ![t] = "aexit"]
    /\ trace' = Append(trace, Event("readError", t, nread[t] + 1))
    /\ UNCHANGED <<fsKind, fsLen, mode, argSize, run, mpc, exitStatus, hasProcessor,
                   chunk_counter, total_bytes, size, handle, unread, chunk, nread,
                   cause, result, stdout, final, counterVars>>

\* Variant: the counters belong to the call, not to the instance: they are set
\* from the chunks and bytes this call has read.
UpdateMetricsPerCall(t) ==
    /\ total_bytes' = [total_bytes EXCEPT !.value = Wrapped(BigDiff(fsLen, unread[t]))]
    /\ chunk_counter' = [chunk_counter EXCEPT !.value = nread[t]]
    /\ stdout' = Append(stdout, ProgressLine(chunk_counter', total_bytes', chunk[t]))

\* Variant: _display_progress is called before the two increments.
UpdateMetricsPrintFirst(t) ==
    /\ stdout' = Append(stdout, ProgressLine(chunk_counter, total_bytes, chunk[t]))
    /\ total_bytes' = increment(total_bytes, chunk[t])
    /\ chunk_counter' = increment(chunk_counter, 1)

\* _update_metrics(chunk_length): both increments, then the progress line.
UpdateMetrics(t) ==
    /\ total_bytes' = increment(total_bytes, chunk[t])
    /\ chunk_counter' = increment(chunk_counter, 1)
    /\ stdout' = Append(stdout, ProgressLine(chunk_counter', total_bytes', chunk[t]))

\* asyncio.sleep completes: _process_single_chunk returns, _update_metrics runs
\* and the loop issues the next read.
HookDone(t) ==
    /\ pc[t] = "hook"
    /\ UpdateMetrics(t)
    /\ chunk' = [chunk EXCEPT ![t] = 0]
    /\ pc' = [pc EXCEPT ![t] = "read"]
    /\ trace' = trace \o <<Event("hook", t, nread[t]), Event("update", t, nread[t]),
                           Event("print", t, nread[t]), Event("readStart", t, nread[t] + 1)>>
    /\ UNCHANGED <<fsKind, fsLen, mode, argSize, run, mpc, exitStatus, hasProcessor,
                   size, handle, unread, nread, exc, cause, result, final, counterVars>>

\* The task is cancelled while suspended: CancelledError is raised at the await.
Cancel(t) ==
    /\ pc[t] \in {"open", "read", "hook"}
    /\ trace' = Append(trace, Event("cancel", t, nread[t]))
    /\ chunk' = [chunk EXCEPT ![t] = 0]
    /\ IF pc[t] = "open"
       THEN /\ pc' = [pc EXCEPT ![t] = "raised"]
            /\ cause' = [cause EXCEPT ![t] = "CancelledError"]
            /\ result' = [result EXCEPT ![t] = "CancelledError"]
            /\ exc' = exc
       ELSE /\ pc' = [pc EXCEPT ![t] = "aexit"]
            /\ exc' = [exc EXCEPT ![t] = "CancelledError"]
            /\ UNCHANGED <<cause, result>>
    /\ UNCHANGED <<fsKind, fsLen, mode, argSize, run, mpc, exitStatus, hasProcessor,
                   chunk_counter, total_bytes, size, handle, unread, nread,
                   stdout, final, counterVars>>

\* Variant: no `async with`; file.close() follows the loop and is skipped when
\* an exception leaves it.
CloseAfterLoopOnly(t) ==
    handle' = [handle EXCEPT ![t] = IF exc[t] = "none" THEN "closed" ELSE handle[t]]

\* __aexit__ of the `async with`: the file is closed.
CloseFile(t) == handle' = [handle EXCEPT ![t] = "closed"]

\* Leaving the `async with` block, then the except clauses, then the return.
ExitWith(t) ==
    /\ pc[t] = "aexit"
    /\ CloseFile(t)
    /\ cause' = [cause EXCEPT ![t] = IF exc[t] = "none" THEN "ok" ELSE exc[t]]
    /\ IF exc[t] = "none"
       THEN /\ result' = [result EXCEPT ![t] = "None"]
            /\ pc' = [pc EXCEPT ![t] = "returned"]
            /\ stdout' = stdout
            /\ trace' = Append(trace, Event("close", t, 0))
       ELSE IF Handler(exc[t]) # "uncaught"
       THEN /\ result' = [result EXCEPT ![t] = "None"]
            /\ pc' = [pc EXCEPT ![t] = "returned"]
            /\ stdout' = Append(stdout, Message(Handler(exc[t])))
            /\ trace' = trace \o <<Event("close", t, 0), Event("error", t, 0)>>
       ELSE /\ result' = [result EXCEPT ![t] = exc[t]]
            /\ pc' = [pc EXCEPT ![t] = "raised"]
            /\ stdout' = stdout
            /\ trace' = Append(trace, Event("close", t, 0))
    /\ UNCHANGED <<fsKind, fsLen, mode, argSize, run, mpc, exitStatus, hasProcessor,
                   chunk_counter, total_bytes, size, unread, chunk, nread, exc,
                   final, counterVars>>

\* ------------------------------------------------------------ cmd/chunker.py
\* Variant: only existence is checked, not is_file().
validate_exists_only(kind) == IF kind = "missing" THEN "FileNotFoundError" ELSE "ok"

\* validate_file_path: the exception it raises, or "ok".
validate_file_path(kind) ==
    CASE kind = "missing" -> "FileNotFoundError"
      [] kind = "dir"     -> "ValueError"
      [] OTHER            -> "ok"

\* What a run ended with.
FinalRecord(why) ==
    [ended |-> TRUE, created |-> hasProcessor, cause |-> why, size |-> size[1],
     chunks |-> get(chunk_counter), total |-> get(total_bytes), lines |-> stdout']

\* main(): validation raises; `except (FileNotFoundError, ValueError)` prints
\* the error and calls sys.exit(1).
MainReject ==
    /\ mode = "main" /\ mpc = "start"
    /\ validate_file_path(fsKind) # "ok"
    /\ stdout' = Append(stdout, Message(IF validate_file_path(fsKind) = "FileNotFoundError"
                                        THEN "Error: does not exist"
                                        ELSE "Error: is not a file"))
    /\ trace' = Append(trace, Event("exit", 0, 1))
    /\ mpc' = "exited"
    /\ exitStatus' = "1"
    /\ final' = [final EXCEPT ![run] = FinalRecord(validate_file_path(fsKind))]
    /\ UNCHANGED <<fsKind, fsLen, mode, argSize, run, hasProcessor, chunk_counter,
                   total_bytes, pc, size, handle, unread, chunk, nread, exc, cause,
                   result, counterVars>>

\* main(): validation passes, the processor is constructed and process_file is
\* awaited with the default chunk size.
MainStart ==
    /\ mode = "main" /\ mpc = "start"
    /\ validate_file_path(fsKind) = "ok"
    /\ AsyncFileChunker_init
    /\ CallProcessFile(1, DEFAULT_CHUNK_SIZE)
    /\ mpc' = "await"
    /\ UNCHANGED <<fsKind, fsLen, mode, argSize, run, exitStatus, handle, unread,
                   chunk, nread, exc, cause, result, stdout, final, counterVars>>

\* main(): process_file returned; the Elapsed line is printed and main ends.
MainEnd ==
    /\ mode = "main" /\ mpc = "await"
    /\ pc[1] = "returned"
    /\ stdout' = Append(stdout, Message("Elapsed"))
    /\ trace' = Append(trace, Event("exit", 0, 0))
    /\ mpc' = "exited"
    /\ exitStatus' = "0"
    /\ final' = [final EXCEPT ![run] = FinalRecord(cause[1])]
    /\ UNCHANGED <<fsKind, fsLen, mode, argSize, run, hasProcessor, chunk_counter,
                   total_bytes, pc, size, handle, unread, chunk, nread, exc, cause,
                   result, counterVars>>

\* main(): process_file raised something main does not catch.
MainRaise ==
    /\ mode = "main" /\ mpc = "await"
    /\ pc[1] = "raised"
    /\ stdout' = stdout
    /\ trace' = Append(trace, Event("exit", 0, 1))
    /\ mpc' = "exited"
    /\ exitStatus' = "unhandled"
    /\ final' = [final EXCEPT ![run] = FinalRecord(cause[1])]
    /\ UNCHANGED <<fsKind, fsLen, mode, argSize, run, hasProcessor, chunk_counter,
                   total_bytes, pc, size, handle, unread, chunk, nread, exc, cause,
                   result, counterVars>>

\* A caller other than main: a new processor, then process_file(path, c).
DirectStart ==
    /\ mode = "direct" /\ mpc = "start"
    /\ AsyncFileChunker_init
    /\ CallProcessFile(1, argSize)
    /\ mpc' = "await"
    /\ UNCHANGED <<fsKind, fsLen, mode, argSize, run, exitStatus, handle, unread,
                   chunk, nread, exc, cause, result, stdout, final, counterVars>>

\* The direct caller gets process_file's result.
DirectEnd ==
    /\ mode = "direct" /\ mpc = "await"
    /\ pc[1] \in {"returned", "raised"}
    /\ stdout' = stdout
    /\ mpc' = "exited"
    /\ exitStatus' = pc[1]
    /\ final' = [final EXCEPT ![run] = FinalRecord(cause[1])]
    /\ UNCHANGED <<fsKind, fsLen, mode, argSize, run, hasProcessor, chunk_counter,
                   total_bytes, pc, size, handle, unread, chunk, nread, exc, cause,
                   result, trace, counterVars>>

\* The caller runs the program again on the same path with the same chunk size.
Rerun ==
    /\ mode \in {"main", "direct"}
    /\ mpc = "exited" /\ run < MaxRuns
    /\ run' = run + 1
    /\ mpc' = "start"
    /\ exitStatus' = "none"
    /\ hasProcessor' = FALSE
    /\ pc' = [t \in Tasks |-> "idle"]
    /\ size' = [t \in Tasks |-> 0]
    /\ handle' = [t \in Tasks |-> "none"]
    /\ unread' = [t \in Tasks |-> BigZero]
    /\ chunk' = [t \in Tasks |-> 0]
    /\ nread' = [t \in Tasks |-> 0]
    /\ exc' = [t \in Tasks |-> "none"]
    /\ cause' = [t \in Tasks |-> "none"]
    /\ result' = [t \in Tasks |-> "none"]
    /\ stdout' = <<>>
    /\ trace' = <<>>
    /\ UNCHANGED <<fsKind, fsLen, mode, argSize, chunk_counter, total_bytes, final,
                   counterVars>>

\* Another process removes the file (an open handle keeps reading it).
Unlink ==
    /\ fsKind \in {"file", "noperm"}
    /\ fsKind' = "missing"
    /\ UNCHANGED <<fsLen, mode, argSize, run, mpc, exitStatus, hasProcessor,
                   chunk_counter, total_bytes, pc, size, handle, unread, chunk,
                   nread, exc, cause, result, stdout, trace, final, counterVars>>

Next ==
    \/ MainReject
    \/ MainStart
    \/ MainEnd
    \/ MainRaise
    \/ DirectStart
    \/ DirectEnd
    \/ Rerun
    \/ Unlink
    \/ \E t \in Tasks : OpenOk(t)
    \/ \E t \in Tasks : OpenFail(t)
    \/ \E t \in Tasks : ReadChunk(t)
    \/ \E t \in Tasks : ReadEOF(t)
    \/ \E t \in Tasks : ReadFail(t)
    \/ \E t \in Tasks : HookDone(t)
    \/ \E t \in Tasks : Cancel(t)
    \/ \E t \in Tasks : ExitWith(t)

Spec == Init /\ [][Next]_vars

\* ------------------------------------- AtomicCounter under concurrent callers
\* Amounts the concurrent callers pass.
Amounts == {1, 2, INT_MAX}
ThreadOps == [op : {"increment", "decrement"}, num : Amounts]
                \cup {[op |-> "get", num |-> 0]}

\* multiprocessing.Lock: `with self.lock` is entered only while no caller holds it.
LockFree(c) == c.lock = 0

\* No chunker is running while the counter is exercised on its own.
IdleChunker ==
    /\ fsKind = "missing" /\ fsLen = BigZero
    /\ mode = "counter" /\ argSize = 0
    /\ run = 1 /\ mpc = "exited" /\ exitStatus = "none"
    /\ hasProcessor = FALSE
    /\ chunk_counter = AtomicCounter(0)
    /\ total_bytes = AtomicCounter(0)
    /\ IdleTasks
    /\ stdout = <<>> /\ trace = <<>>
    /\ final = [r \in 1..MaxRuns |-> NoFinal]

InitCounter ==
    /\ IdleChunker
    /\ shared = AtomicCounter(0)
    /\ top \in [Threads -> ThreadOps]
    /\ tpc = [th \in Threads |-> "start"]
    /\ tmp = [th \in Threads |-> 0]
    /\ observed = <<>>
    /\ snapshot = <<>>

\* `with self.lock:` is entered.
Acquire(th) ==
    /\ tpc[th] = "start"
    /\ LockFree(shared)
    /\ shared' = [shared EXCEPT !.lock = th]
    /\ tpc' = [tpc EXCEPT ![th] = "locked"]
    /\ UNCHANGED <<top, tmp, observed, snapshot, chunkerVars>>

\* self.value.value is read (by `+=`, `-=` or the return of get).
Load(th) ==
    /\ tpc[th] = "locked"
    /\ tmp' = [tmp EXCEPT ![th] = shared.value]
    /\ tpc' = [tpc EXCEPT ![th] = IF top[th].op = "get" THEN "stored" ELSE "loaded"]
    /\ UNCHANGED <<shared, top, observed, snapshot, chunkerVars>>

\* self.value.value is assigned the sum (increment) or difference (decrement).
Store(th) ==
    /\ tpc[th] = "loaded"
    /\ shared' = [shared EXCEPT !.value =
                     IF top[th].op = "increment" THEN Add32(tmp[th], top[th].num)
                                                 ELSE Add32(tmp[th], -top[th].num)]
    /\ tpc' = [tpc EXCEPT ![th] = "stored"]
    /\ UNCHANGED <<top, tmp, observed, snapshot, chunkerVars>>

\* The `with` block is left: the lock is released and the method returns.
Release(th) ==
    /\ tpc[th] = "stored"
    /\ shared' = [shared EXCEPT !.lock = 0]
    /\ tpc' = [tpc EXCEPT ![th] = "done"]
    /\ UNCHANGED <<top, tmp, observed, snapshot, chunkerVars>>

\* After every caller has completed, get() is called once more.
JoinGet ==
    /\ mode = "counter"
    /\ \A th \in Threads : tpc[th] = "done"
    /\ observed = <<>>
    /\ LockFree(shared)
    /\ observed' = <<get(shared)>>
    /\ UNCHANGED <<shared, tpc, top, tmp, snapshot, chunkerVars>>

NextCounter ==
    \/ \E th \in Threads : Acquire(th)
    \/ \E th \in Threads : Load(th)
    \/ \E th \in Threads : Store(th)
    \/ \E th \in Threads : Release(th)
    \/ JoinGet

SpecCounter == InitCounter /\ [][NextCounter]_vars

\* ------------------------------------------------------------------ history
Range(s) == {s[i] : i \in DOMAIN s}
IsProgress(l) == l.kind = "progress"
\* The progress lines printed so far in this run, in order.
ProgressLines == SelectSeq(stdout, IsProgress)
\* The lines that report a failure.
ErrorKinds == {"File not found", "Permission denied accessing file",
               "Error processing file", "Error: does not exist", "Error: is not a file"}
ErrorLines == {l \in Range(stdout) : l.kind \in ErrorKinds}
RECURSIVE SumLens(_)
\* Exact sum of the chunk lengths of a sequence of progress lines.
SumLens(ls) == IF ls = <<>> THEN BigZero ELSE BigAdd(SumLens(Tail(ls)), Head(ls).len)
RECURSIVE SumNums(_)
\* Exact sum of the amounts of a set of callers.
SumNums(S) ==
    IF S = {} THEN BigZero
    ELSE LET th == CHOOSE x \in S : TRUE
         IN  BigAdd(SumNums(S \ {th}), top[th].num)
\* Kinds of the events of task t, in order, restricted to `kinds`.
EventsOf(t, kinds) ==
    LET es == SelectSeq(trace, LAMBDA e : e.t = t /\ e.ev \in kinds)
    IN  [j \in DOMAIN es |-> <<es[j].ev, es[j].i>>]
\* process_file of task 1 has returned after reading the file to its end.
ReadToEnd == pc[1] = "returned" /\ cause[1] = "ok"
\* min(c, n - (i-1)*c): the length of the i-th chunk of n bytes.
ChunkLenAt(n, c, i) == BigMin(Big(c), BigDiff(n, BigTimes(i - 1, c)))
\* min(i*c, n): the bytes in the first i chunks.
TotalAt(n, c, i) == BigMin(BigTimes(i, c), n)

\* ------------------------------------------------------------------- claims

\* C1: for c >= 1 and n >= 0, a process_file run on a new AsyncFileChunker that
\* reads the file to its end processes ceil(n / c) chunks whose lengths sum to
\* n, leaves chunk_counter.get() = ceil(n / c) and total_bytes.get() = n, and
\* for n = 0 reports no error.
C1_ChunksAndTotals ==
    (ReadToEnd /\ size[1] >= 1) =>
        /\ nread[1] = BigCeilDiv(fsLen, size[1])
        /\ Len(ProgressLines) = BigCeilDiv(fsLen, size[1])
        /\ SumLens(ProgressLines) = fsLen
        /\ get(chunk_counter) = BigCeilDiv(fsLen, size[1])
        /\ BigIs(fsLen, get(total_bytes))
        /\ (fsLen = BigZero => ErrorLines = {})

\* C1 restricted to files shorter than 2^31 bytes, where total_bytes does not
\* leave the range of its C int.
C1_BelowIntRange ==
    (ReadToEnd /\ size[1] >= 1 /\ fsLen.hi <= 1) =>
        /\ nread[1] = BigCeilDiv(fsLen, size[1])
        /\ Len(ProgressLines) = BigCeilDiv(fsLen, size[1])
        /\ SumLens(ProgressLines) = fsLen
        /\ get(chunk_counter) = BigCeilDiv(fsLen, size[1])
        /\ BigIs(fsLen, get(total_bytes))
        /\ (fsLen = BigZero => ErrorLines = {})

\* C2: k callers increment one counter that starts at 0 by a_1..a_k
\* concurrently; get() after all of them completed returns a_1 + ... + a_k.
C2_NoLostIncrement ==
    (observed # <<>> /\ \A th \in Threads : top[th].op = "increment") =>
        BigIs(SumNums(Threads), observed[1])

\* C2 restricted to amounts whose sum stays within the C int.
C2_BelowIntRange ==
    (/\ observed # <<>>
     /\ \A th \in Threads : top[th].op = "increment"
     /\ SumNums(Threads).hi <= 1) =>
        BigIs(SumNums(Threads), observed[1])

\* C3: on a new processor the i-th processed chunk has length
\* min(c, n - (i-1)*c) and the i-th progress line reports counter value i, that
\* length and running total min(i*c, n); for c = 8192, n = 20000: lengths
\* 8192, 8192, 3616, totals 8192, 16384, 20000, counter values 1, 2, 3.
C3_ProgressLines ==
    (hasProcessor /\ size[1] >= 1) =>
        /\ \A i \in DOMAIN ProgressLines :
              /\ ProgressLines[i].count = i
              /\ BigIs(ChunkLenAt(fsLen, size[1], i), ProgressLines[i].len)
              /\ BigIs(TotalAt(fsLen, size[1], i), ProgressLines[i].total)
        /\ (ReadToEnd /\ size[1] = 8192 /\ fsLen = Big(20000)) =>
              ProgressLines = << [kind |-> "progress", count |-> 1, len |-> 8192, total |-> 8192],
                                 [kind |-> "progress", count |-> 2, len |-> 8192, total |-> 16384],
                                 [kind |-> "progress", count |-> 3, len |-> 3616, total |-> 20000] >>

\* C3 restricted to files shorter than 2^31 bytes.
C3_BelowIntRange == fsLen.hi <= 1 => C3_ProgressLines

\* C4: two runs on the same file with the same chunk size that both read it to
\* its end finish with the same chunk count, the same total and the same
\* progress lines: the second run starts from counters at 0.
C4_RunsIdentical ==
    (/\ final[1].ended /\ final[2].ended
     /\ final[1].cause = "ok" /\ final[2].cause = "ok"
     /\ final[1].size = final[2].size) =>
        /\ final[2].chunks = final[1].chunks
        /\ final[2].total = final[1].total
        /\ SelectSeq(final[2].lines, IsProgress) = SelectSeq(final[1].lines, IsProgress)

\* C4 case: a second run has processed several chunks to the end of the file.
C4_Witness ==
    /\ final[1].ended /\ final[2].ended
    /\ final[1].cause = "ok" /\ final[2].cause = "ok"
    /\ final[2].chunks >= 2

\* C5 as stated: whenever c > n, exactly one chunk is processed and its length
\* is n.
C5_Original ==
    (ReadToEnd /\ ~BigLeq(Big(size[1]), fsLen)) =>
        /\ nread[1] = 1
        /\ Len(ProgressLines) = 1
        /\ BigIs(fsLen, ProgressLines[1].len)

\* C5 amended: whenever c > n >= 1, exactly one chunk is processed and its
\* length is n (an empty file yields no chunk).
C5_OneChunk ==
    (ReadToEnd /\ ~BigLeq(Big(size[1]), fsLen) /\ fsLen # BigZero) =>
        /\ nread[1] = 1
        /\ Len(ProgressLines) = 1
        /\ BigIs(fsLen, ProgressLines[1].len)

\* C5 case: a non-empty file shorter than the chunk size was read to its end.
C5_Witness ==
    /\ ReadToEnd /\ ~BigLeq(Big(size[1]), fsLen) /\ fsLen # BigZero
    /\ nread[1] = 1

\* The four outcomes of the entry point.
OutcomeOf(why) ==
    CASE why = "ok"                -> "success"
      [] why = "FileNotFoundError" -> "not-found"
      [] why = "PermissionError"   -> "permission-denied"
      [] OTHER                     -> "other-io"
\* The outcome the caller can read off what process_file hands back (None, or
\* the exception it raises).
ToldToCaller(res) == OutcomeOf(IF res = "None" THEN "ok" ELSE res)

\* C6: process_file hands its caller success or a typed failure, so that
\* success, not-found, permission-denied and other I/O failure are told apart.
C6_TypedOutcome ==
    \A t \in Tasks :
        (pc[t] \in {"returned", "raised"} /\ cause[t] # "CancelledError") =>
            ToldToCaller(result[t]) = OutcomeOf(cause[t])

\* No chunk has been touched by task t in this run.
ZeroChunks(t) ==
    /\ nread[t] = 0
    /\ handle[t] = "none"
    /\ chunk[t] = 0
    /\ EventsOf(t, {"read", "hookStart", "hook", "update", "print"}) = <<>>
    /\ ProgressLines = <<>>
    /\ hasProcessor => (get(chunk_counter) = 0 /\ get(total_bytes) = 0)

C8_RejectBeforeRead ==
    [][ (mode = "main" /\ mpc = "start" /\ mpc' # mpc /\ fsKind \in {"dir", "missing"}) =>
            /\ mpc' = "exited"
            /\ exitStatus' = "1"
            /\ stdout' = <<Message(IF fsKind = "dir" THEN "Error: is not a file"
                                                    ELSE "Error: does not exist")>>
            /\ ~hasProcessor'
            /\ \A t \in Tasks : pc'[t] = "idle" /\ handle'[t] = "none"
            /\ Range(trace') \subseteq {Event("exit", 0, 1)}
      ]_vars

\* C8 case: main was given a directory and has exited.
C8_Witness ==
    /\ mode = "main" /\ fsKind = "dir" /\ mpc = "exited" /\ exitStatus = "1"
    /\ stdout = <<Message("Error: is not a file")>>

RECURSIVE Lockstep(_, _)
\* es is a prefix of readStart 1, read 1, hookStart 1, hook 1, update 1,
\* readStart 2, ...: with `after` the event that must follow es.
Lockstep(es, after) ==
    IF es = <<>> THEN TRUE
    ELSE /\ Head(es) = after
         /\ Lockstep(Tail(es),
                CASE after[1] = "readStart" -> <<"read", after[2]>>
                  [] after[1] = "read"      -> <<"hookStart", after[2]>>
                  [] after[1] = "hookStart" -> <<"hook", after[2]>>
                  [] after[1] = "hook"      -> <<"update", after[2]>>
                  [] after[1] = "update"    -> <<"readStart", after[2] + 1>>)

\* C9: within one call the events are readStart 1, read 1, hook 1, update 1,
\* readStart 2, ...: a read is outstanding only while no chunk is in flight
\* and every chunk read so far has had its metrics updated.
C9_Sequential ==
    \A t \in Tasks :
        /\ Lockstep(EventsOf(t, {"readStart", "read", "hookStart", "hook", "update"}),
                    <<"readStart", 1>>)
        /\ pc[t] = "read" =>
              /\ chunk[t] = 0
              /\ Len(EventsOf(t, {"update"})) = nread[t]
        /\ pc[t] = "hook" => Len(EventsOf(t, {"update"})) = nread[t] - 1

\* C9 case: the read of the third chunk has been issued.
C9_Witness == pc[1] = "read" /\ nread[1] = 2 /\ unread[1] # BigZero

\* C10: once process_file has returned or raised, the handle it opened is
\* closed; a call that opened nothing has no handle.
C10_HandleReleased ==
    \A t \in Tasks :
        pc[t] \in {"returned", "raised"} =>
            /\ handle[t] # "open"
            /\ EventsOf(t, {"open"}) # <<>> => handle[t] = "closed"

\* C10 cases: process_file raised after a cancellation during the hook / it
\* returned after a read error, each with the handle closed.
C10_Witness ==
    /\ pc[1] = "raised" /\ handle[1] = "closed"
    /\ final[1].ended /\ final[1].cause = "OSError" /\ final[1].chunks >= 1

\* ---------------------------------------------------------------- C11..C20

\* Caller th is inside a `with self.lock` block.
InCS(th) == tpc[th] \in {"locked", "loaded", "stored"}
\* The increment or decrement of caller th has been stored.
TakenEffect(th) == top[th].op # "get" /\ tpc[th] \in {"stored", "done"}
RECURSIVE SumOp(_, _)
\* Exact sum of the amounts of the callers in S whose operation is op.
SumOp(S, op) ==
    IF S = {} THEN BigZero
    ELSE LET th == CHOOSE x \in S : TRUE
         IN  IF top[th].op = op THEN BigAdd(SumOp(S \ {th}, op), top[th].num)
                                ELSE SumOp(S \ {th}, op)
\* v = plus - minus, exactly.
IsDifference(v, plus, minus) ==
    IF v >= 0 THEN BigAdd(minus, v) = plus
    ELSE IF v = INT_MIN THEN BigAdd(BigAdd(plus, INT_MAX), 1) = minus
    ELSE BigAdd(plus, -v) = minus
\* v is the initial value 0 plus the amounts of some set of operations that
\* have taken effect.
Explained(v) ==
    \E S \in SUBSET {th \in Threads : TakenEffect(th)} :
        IsDifference(v, SumOp(S, "increment"), SumOp(S, "decrement"))
\* The values get() has returned so far.
GetValues ==
    {tmp[th] : th \in {x \in Threads : top[x].op = "get" /\ tpc[x] \in {"stored", "done"}}}
        \cup Range(observed)

\* At most one caller is inside a critical section, and exactly the caller
\* inside it (the one that reads or writes the value) holds the lock.
MutualExclusion ==
    /\ Cardinality({th \in Threads : InCS(th)}) <= 1
    /\ \A th \in Threads : InCS(th) <=> shared.lock = th

\* C11: at most one caller is inside a critical section of the counter, every
\* read and write of its value is made by the holder of the lock, and every
\* value get() returns is the initial value plus the amounts of some set of
\* increments and decrements that have taken effect.
C11_LockedSnapshot ==
    /\ MutualExclusion
    /\ \A v \in GetValues : Explained(v)

\* C11 restricted to amounts whose sum stays within the C int.
C11_BelowIntRange ==
    SumNums(Threads).hi <= 1 =>
        /\ MutualExclusion
        /\ \A v \in GetValues : Explained(v)

RECURSIVE HookUpdatePrint(_, _)
\* es is a prefix of hook 1, update 1, print 1, hook 2, ...
HookUpdatePrint(es, after) ==
    IF es = <<>> THEN TRUE
    ELSE /\ Head(es) = after
         /\ HookUpdatePrint(Tail(es),
                CASE after[1] = "hook"   -> <<"update", after[2]>>
                  [] after[1] = "update" -> <<"print", after[2]>>
                  [] after[1] = "print"  -> <<"hook", after[2] + 1>>)

\* C12: for each chunk the hook completes, then chunk_counter is incremented
\* by 1 and total_bytes by the chunk's length (one increment call each, in the
\* counter's arithmetic), then one progress line is printed; the line shows
\* the counters with the chunk included, the counters change in no other step
\* of a run, and there are as many progress lines as updated chunks.
C12_HookUpdatePrint ==
    /\ [](/\ \A t \in Tasks :
                HookUpdatePrint(EventsOf(t, {"hook", "update", "print"}), <<"hook", 1>>)
          /\ Len(ProgressLines) = Len(SelectSeq(trace, LAMBDA e : e.ev = "update"))
          /\ Len(ProgressLines) = Len(SelectSeq(trace, LAMBDA e : e.ev = "print"))
          /\ hasProcessor => Len(ProgressLines) = get(chunk_counter))
    /\ [][ /\ (run' = run /\ ProgressLines' # ProgressLines) =>
                \E t \in Tasks :
                    /\ pc[t] = "hook" /\ chunk[t] > 0
                    /\ get(chunk_counter') = get(chunk_counter) + 1
                    /\ get(total_bytes') = Add32(get(total_bytes), chunk[t])
                    /\ ProgressLines' = Append(ProgressLines,
                           [kind |-> "progress", count |-> get(chunk_counter'),
                            len |-> chunk[t], total |-> get(total_bytes')])
           /\ (hasProcessor /\ hasProcessor' /\
               <<chunk_counter, total_bytes>>' # <<chunk_counter, total_bytes>>) =>
                    Len(ProgressLines') = Len(ProgressLines) + 1
         ]_vars

\* C12 case: the second chunk of a call has been hooked, counted and printed.
C12_Witness ==
    /\ Len(ProgressLines) = 2 /\ get(chunk_counter) = 2
    /\ pc[1] = "read" /\ nread[1] = 2

\* ------------------------------- the counters seen from another thread
\* For a thread other than the event loop's, _update_metrics is two separate
\* locked increments followed by the print.

\* The sleep is over and total_bytes.increment(chunk_length) has returned.
IncTotalStep(t) ==
    /\ pc[t] = "hook"
    /\ total_bytes' = increment(total_bytes, chunk[t])
    /\ pc' = [pc EXCEPT ![t] = "metrics"]
    /\ trace' = Append(trace, Event("hook", t, nread[t]))
    /\ UNCHANGED <<fsKind, fsLen, mode, argSize, run, mpc, exitStatus, hasProcessor,
                   chunk_counter, size, handle, unread, chunk, nread, exc, cause,
                   result, stdout, final, counterVars>>

\* chunk_counter.increment() and _display_progress; the next read is issued.
IncCountStep(t) ==
    /\ pc[t] = "metrics"
    /\ chunk_counter' = increment(chunk_counter, 1)
    /\ stdout' = Append(stdout, ProgressLine(chunk_counter', total_bytes, chunk[t]))
    /\ chunk' = [chunk EXCEPT ![t] = 0]
    /\ pc' = [pc EXCEPT ![t] = "read"]
    /\ trace' = trace \o <<Event("update", t, nread[t]), Event("print", t, nread[t]),
                           Event("readStart", t, nread[t] + 1)>>
    /\ UNCHANGED <<fsKind, fsLen, mode, argSize, run, mpc, exitStatus, hasProcessor,
                   total_bytes, size, handle, unread, nread, exc, cause, result,
                   final, counterVars>>

\* Another thread calls chunk_counter.get() and total_bytes.get().
Observe ==
    /\ hasProcessor
    /\ snapshot' = <<get(chunk_counter), get(total_bytes)>>
    /\ snapshot' # snapshot
    /\ UNCHANGED <<shared, tpc, top, tmp, observed, chunkerVars>>

InitObserver == Init /\ mode = "direct" /\ fsKind = "file" /\ argSize >= 1

NextObserver ==
    \/ DirectStart
    \/ DirectEnd
    \/ Observe
    \/ \E t \in Tasks : OpenOk(t)
    \/ \E t \in Tasks : ReadChunk(t)
    \/ \E t \in Tasks : ReadEOF(t)
    \/ \E t \in Tasks : IncTotalStep(t)
    \/ \E t \in Tasks : IncCountStep(t)
    \/ \E t \in Tasks : ExitWith(t)

SpecObserver == InitObserver /\ [][NextObserver]_vars

\* C13: the two counters are updated as a pair: in every state, and in every
\* pair of values another thread reads, total_bytes is the sum of the lengths
\* of the first chunk_counter chunks (so total_bytes <= chunk_counter * c).
C13_PairAtomic ==
    hasProcessor =>
        /\ BigIs(TotalAt(fsLen, size[1], get(chunk_counter)), get(total_bytes))
        /\ snapshot # <<>> =>
              BigIs(TotalAt(fsLen, size[1], snapshot[1]), snapshot[2])

\* C13 restricted to files shorter than 2^31 bytes: still violated.
C13_BelowIntRange == fsLen.hi <= 1 => C13_PairAtomic

\* The exception classes that are I/O failures.
IOFailures == {"FileNotFoundError", "PermissionError", "IsADirectoryError", "OSError"}
\* Idle -> Reading -> Processing -> Reading -> ... -> Done | Failed, with the
\* open and the close of the file as steps of their own; the last three pairs
\* are taken only by a cancellation.
Transitions ==
    {<<"idle", "open">>, <<"open", "read">>, <<"read", "hook">>, <<"hook", "read">>,
     <<"read", "aexit">>, <<"aexit", "returned">>, <<"open", "returned">>,
     <<"open", "raised">>, <<"hook", "aexit">>, <<"aexit", "raised">>}
\* Task t has met an I/O failure.
Failed(t) == exc[t] \in IOFailures \/ cause[t] \in IOFailures
\* Number of error lines printed in this run.
ErrorCount == Len(SelectSeq(stdout, LAMBDA l : l.kind \in ErrorKinds))
\* No event of task t other than the close and the error line follows its
\* first failure event.
NothingAfterFailure(t) ==
    LET es == SelectSeq(trace, LAMBDA e : e.t = t)
    IN  \A j \in DOMAIN es :
            es[j].ev \in {"readError", "error"} =>
                \A k \in (j + 1)..Len(es) : es[k].ev \in {"close", "error"}

\* C14: a run moves Idle -> Reading -> Processing -> Reading ... and a call
\* that returns is either Done (after an empty read, no error line) or Failed
\* (an I/O failure at the open or a read, exactly one error line); after the
\* failure no read is issued, no hook runs, no counter changes and no
\* progress line is printed.
C14_FailedIsTerminal ==
    /\ [](\A t \in Tasks :
            /\ NothingAfterFailure(t)
            /\ Len(SelectSeq(trace, LAMBDA e : e.t = t /\ e.ev = "readError")) <= 1
            /\ pc[t] = "returned" =>
                  /\ cause[t] = "ok" \/ cause[t] \in IOFailures
                  /\ cause[t] = "ok" =>
                        /\ ErrorCount = 0
                        /\ EventsOf(t, {"eof"}) # <<>>
                  /\ cause[t] \in IOFailures =>
                        /\ ErrorCount = 1
                        /\ EventsOf(t, {"eof"}) = <<>>)
    /\ [][ run' = run =>
             \A t \in Tasks :
                /\ pc'[t] # pc[t] => <<pc[t], pc'[t]>> \in Transitions
                /\ Failed(t) =>
                      /\ Failed(t)'
                      /\ pc'[t] \in {"aexit", "returned"}
                      /\ nread'[t] = nread[t]
                      /\ <<chunk_counter, total_bytes>>' = <<chunk_counter, total_bytes>>
                      /\ ProgressLines' = ProgressLines
                      /\ ErrorCount' <= 1
         ]_vars

\* C14 case: a read failed after two chunks, and the call has returned.
C14_Witness ==
    /\ pc[1] = "returned" /\ cause[1] = "OSError" /\ nread[1] = 2
    /\ ErrorCount = 1 /\ mpc = "exited"

\* ---------------------------------------------------------------- termination
\* Every pending await of process_file completes: the open, each read, each
\* sleep of the hook and the close of the file.
AwaitCompletes(t) ==
    OpenOk(t) \/ OpenFail(t) \/ ReadChunk(t) \/ ReadEOF(t) \/ HookDone(t) \/ ExitWith(t)
\* The program of Spec under an event loop that completes what is awaited.
SpecLive == Init /\ [][Next]_vars /\ WF_vars(\E t \in Tasks : AwaitCompletes(t))

\* Reads of task t that have completed, whatever they produced.
ReadsDone(t) == Len(EventsOf(t, {"read", "eof", "readError"}))

\* C15: with every read and every hook completing, a started process_file
\* ends; for c >= 1 it issues at most ceil(n/c) + 1 reads, and it ends as a
\* normal completion (no error line, result None) exactly at the first read
\* of zero bytes, which is read number ceil(n/c) + 1.
C15_Terminates ==
    /\ (pc[1] = "open") ~> (pc[1] \in {"returned", "raised"})
    /\ [](\A t \in Tasks :
            size[t] >= 1 /\ pc[t] \notin {"idle", "open"} =>
                /\ ReadsDone(t) <= BigCeilDiv(fsLen, size[t]) + 1
                /\ EventsOf(t, {"eof"}) # <<>> =>
                      /\ EventsOf(t, {"eof"}) = <<<<"eof", BigCeilDiv(fsLen, size[t]) + 1>>>>
                      /\ unread[t] = BigZero
                      /\ nread[t] = BigCeilDiv(fsLen, size[t])
                /\ pc[t] = "returned" /\ cause[t] = "ok" =>
                      /\ ReadsDone(t) = BigCeilDiv(fsLen, size[t]) + 1
                      /\ EventsOf(t, {"eof"}) # <<>>
                      /\ ErrorCount = 0
                      /\ result[t] = "None"
                /\ pc[t] = "returned" /\ cause[t] # "ok" =>
                      EventsOf(t, {"eof"}) = <<>>)

\* C15 case: 20000 bytes in chunks of 8192 ended normally at the fourth read.
C15_Witness ==
    /\ ReadToEnd /\ size[1] = DEFAULT_CHUNK_SIZE /\ fsLen = Big(ScenarioLen)
    /\ ReadsDone(1) = 4 /\ nread[1] = 3

\* ------------------------------------------------------------ 32-bit counter
\* Both uses of AtomicCounter: by the chunker, and by concurrent callers of
\* increment and decrement.
InitWrap == Init \/ InitCounter
NextWrap == Next \/ NextCounter
SpecWrap == InitWrap /\ [][NextWrap]_vars

\* w is what a signed 32-bit cell holds after v + d is stored in it.
StoredSum(v, d, w) ==
    IF d >= 0
    THEN IF v <= INT_MAX - d THEN w = v + d
         ELSE w < 0 /\ w - INT_MIN = ((v - INT_MAX) + d) - 1
    ELSE IF v >= INT_MIN - d THEN w = v + d
         ELSE w > 0 /\ w - INT_MAX = ((v - INT_MIN) + d) + 1

\* C16: an increment above 2^31 - 1 or a decrement below -2^31 stores the
\* result modulo 2^32 and the caller completes as after any other update; in
\* the chunker total_bytes holds the bytes processed modulo 2^32, so after a
\* file of 2^31 bytes or more was read to its end, with no error line printed,
\* total_bytes.get() differs from the number of bytes processed.
C16_SilentWrap ==
    /\ [][ \A th \in Threads :
              tpc[th] = "loaded" /\ tpc'[th] # "loaded" =>
                 /\ tpc'[th] = "stored"
                 /\ StoredSum(shared.value,
                              IF top[th].op = "increment" THEN top[th].num ELSE -top[th].num,
                              shared'.value)
         ]_vars
    /\ [](mode # "counter" /\ hasProcessor =>
            /\ get(total_bytes) = Wrapped(SumLens(ProgressLines))
            /\ ReadToEnd /\ fsLen.hi >= 2 =>
                  /\ SumLens(ProgressLines) = fsLen
                  /\ ~BigIs(fsLen, get(total_bytes))
                  /\ get(total_bytes) < 0
                  /\ ErrorCount = 0)

\* C16 case: a file of 2^31 + 1 bytes was read to its end and total_bytes
\* holds -2^31 + 1.
C16_Witness ==
    /\ ReadToEnd /\ fsLen = [hi |-> 2, lo |-> 1]
    /\ get(total_bytes) = INT_MIN + 1

\* ------------------------------------------- two calls on one AsyncFileChunker
\* A second process_file(path, c) on the processor of the first call, started
\* at any time after the first: while it runs (two coroutines of one event
\* loop) or after it has returned.
CallSecond ==
    /\ mode = "direct" /\ mpc = "await"
    /\ pc[1] # "idle"
    /\ CallProcessFile(2, argSize)
    /\ UNCHANGED <<fsKind, fsLen, mode, argSize, run, mpc, exitStatus, hasProcessor,
                   chunk_counter, total_bytes, handle, unread, chunk, nread, exc,
                   cause, result, stdout, final, counterVars>>

\* The caller has the result of both calls.
BothEnd ==
    /\ mode = "direct" /\ mpc = "await"
    /\ pc[1] = "returned" /\ pc[2] = "returned"
    /\ stdout' = stdout
    /\ mpc' = "exited"
    /\ exitStatus' = "returned"
    /\ final' = [final EXCEPT ![run] = FinalRecord(cause[2])]
    /\ UNCHANGED <<fsKind, fsLen, mode, argSize, run, hasProcessor, chunk_counter,
                   total_bytes, pc, size, handle, unread, chunk, nread, exc, cause,
                   result, trace, counterVars>>

\* A readable regular file of at most TwoLen bytes, or of 2^30 bytes.
InitTwo ==
    /\ Init
    /\ mode = "direct" /\ fsKind = "file" /\ argSize >= 1
    /\ BigLeq(fsLen, Big(TwoLen)) \/ fsLen = Big(G)

NextTwo ==
    \/ DirectStart
    \/ CallSecond
    \/ BothEnd
    \/ Rerun
    \/ \E t \in Tasks : OpenOk(t)
    \/ \E t \in Tasks : ReadChunk(t)
    \/ \E t \in Tasks : ReadEOF(t)
    \/ \E t \in Tasks : HookDone(t)
    \/ \E t \in Tasks : ExitWith(t)

SpecTwo == InitTwo /\ [][NextTwo]_vars

\* The second call was made after the first had returned.
SecondAfterFirst ==
    \E j \in DOMAIN trace :
        /\ trace[j] = Event("call", 2, 0)
        /\ \E k \in 1..(j - 1) : trace[k] = Event("close", 1, 0)
\* Two calls on a file of n bytes stay below the overflow bound: 2 * n < 2^31.
BelowOverflow == fsLen.hi = 0

\* C17: while a processor lives no step lowers chunk_counter or total_bytes
\* (below the overflow bound); the only step that sets them to other than an
\* incremented value is the construction of a new processor, which sets both
\* to 0; a second call made after the first has returned starts from
\* ceil(n/c) and n and ends with 2 * ceil(n/c) and 2 * n.
C17_CountersAccumulate ==
    /\ [][ /\ hasProcessor /\ hasProcessor' /\ BelowOverflow =>
                /\ get(chunk_counter') >= get(chunk_counter)
                /\ get(total_bytes') >= get(total_bytes)
           /\ <<chunk_counter, total_bytes>>' # <<chunk_counter, total_bytes>> =>
                \/ /\ ~hasProcessor /\ hasProcessor'
                   /\ get(chunk_counter') = 0 /\ get(total_bytes') = 0
                \/ /\ hasProcessor /\ hasProcessor'
                   /\ \E t \in Tasks :
                         /\ pc[t] = "hook"
                         /\ chunk_counter' = increment(chunk_counter, 1)
                         /\ total_bytes' = increment(total_bytes, chunk[t])
         ]_vars
    /\ [](BelowOverflow /\ pc[2] \in {"open", "returned"} /\ SecondAfterFirst =>
            /\ pc[2] = "open" =>
                  /\ get(chunk_counter) = BigCeilDiv(fsLen, argSize)
                  /\ get(total_bytes) = fsLen.lo
            /\ pc[2] = "returned" =>
                  /\ get(chunk_counter) = 2 * BigCeilDiv(fsLen, argSize)
                  /\ get(total_bytes) = 2 * fsLen.lo)

\* C17 case: two bytes in chunks of one, the second call made after the first
\* returned: 4 chunks and 4 bytes; then a new processor was created.
C17_Witness ==
    /\ run = 2 /\ hasProcessor /\ pc[1] = "open"
    /\ get(chunk_counter) = 0 /\ get(total_bytes) = 0
    /\ final[1].ended /\ final[1].chunks = 4 /\ final[1].total = 4
    /\ fsLen = Big(2) /\ argSize = 1

BothLens == [hi |-> 2 * fsLen.hi + ((2 * fsLen.lo) \div G), lo |-> (2 * fsLen.lo) % G]
\* Every update of the counters is followed at once by the progress line of
\* the same task and chunk, and follows the end of that chunk's hook.
UpdateUninterrupted ==
    \A j \in DOMAIN trace :
        trace[j].ev = "update" =>
            /\ j > 1 /\ trace[j - 1] = Event("hook", trace[j].t, trace[j].i)
            /\ j < Len(trace) /\ trace[j + 1] = Event("print", trace[j].t, trace[j].i)

\* C19: with two process_file calls on one processor in one event loop, each
\* chunk's two increments and progress line are one uninterrupted step: the
\* progress lines carry the ordinals 1, 2, ..., K, each running total is the
\* sum of the chunk lengths printed so far, and after both calls chunk_counter
\* and total_bytes are the sums over both calls.
C19_Interleaved ==
    hasProcessor =>
        /\ UpdateUninterrupted
        /\ \A i \in DOMAIN ProgressLines :
              /\ ProgressLines[i].count = i
              /\ BigIs(SumLens(SubSeq(ProgressLines, 1, i)), ProgressLines[i].total)
        /\ get(chunk_counter) = Len(ProgressLines)
        /\ (pc[1] = "returned" /\ pc[2] = "returned") =>
              /\ get(chunk_counter) = nread[1] + nread[2]
              /\ get(chunk_counter) = 2 * BigCeilDiv(fsLen, argSize)
              /\ BigIs(BothLens, get(total_bytes))

\* C19 for two calls that together process fewer than 2^31 bytes.
C19_BelowIntRange == BelowOverflow => C19_Interleaved

\* C19 case: two calls on two bytes in chunks of one, their chunks alternating.
C19_Overlapped ==
    /\ pc[1] = "returned" /\ pc[2] = "returned"
    /\ fsLen = Big(2) /\ argSize = 1
    /\ EventsOf(1, {"print"}) = <<<<"print", 1>>, <<"print", 2>>>>
    /\ LET ps == SelectSeq(trace, LAMBDA e : e.ev = "print")
       IN  Len(ps) = 4 /\ ps[1].t = 1 /\ ps[2].t = 2 /\ ps[3].t = 1 /\ ps[4].t = 2

\* ------------------------------------------------------------ chunk_size = 0
\* C20: process_file(path, 0) is not rejected: the first read returns no
\* bytes whatever the length of the file, no hook runs, no progress line is
\* printed and both counters stay 0; unless the open or the read fails, the
\* call ends as a normal completion with no error line.
C20_ZeroChunkSize ==
    (mode = "direct" /\ argSize = 0 /\ pc[1] # "idle") =>
        /\ size[1] = 0
        /\ pc[1] # "hook"
        /\ nread[1] = 0
        /\ ProgressLines = <<>>
        /\ get(chunk_counter) = 0 /\ get(total_bytes) = 0
        /\ pc[1] = "read" => unread[1] = fsLen /\ ReadLen(size[1], unread[1]) = 0
        /\ EventsOf(1, {"read", "eof"}) \in {<<>>, <<<<"eof", 1>>>>}
        /\ (pc[1] = "returned" /\ cause[1] = "ok") =>
              /\ EventsOf(1, {"read", "eof"}) = <<<<"eof", 1>>>>
              /\ unread[1] = fsLen
              /\ result[1] = "None"
              /\ ErrorCount = 0
              /\ stdout = <<>>

\* C20 case: three bytes, chunk size 0: returned normally with nothing counted.
C20_Witness ==
    /\ mode = "direct" /\ argSize = 0 /\ fsLen = Big(3)
    /\ ReadToEnd /\ mpc = "exited" /\ exitStatus = "returned"
    /\ final[run].chunks = 0 /\ final[run].total = 0 /\ final[run].lines = <<>>

====
